---------------------------- MODULE Spec2Model ----------------------------
(***************************************************************************)
(* Vehicle parking application: the spot lifecycle (reserve, occupy,       *)
(* release) of src/app.py and the capacity reconciliation of               *)
(* src/models/models.py (_manage_parking_spots) and src/app.py (add_lot,   *)
(* edit_lot, sync_lot_spots, delete_lot), over the three tables            *)
(* parking_lots, parking_spots and reservations.                           *)
(***************************************************************************)
EXTENDS Integers, Sequences, FiniteSets, TLC

\* ------------------------------------------------------------------ bounds
MaxLots == 1        \* lot ids handed out are 1..MaxLots
MaxCap == 3         \* largest capacity an administrator submits
MaxSpotId == 4      \* spot ids handed out are 1..MaxSpotId
MaxRes == 2         \* reservation ids handed out are 1..MaxRes
NumUsers == 2       \* registered customers
NumWorkers == 2     \* requests the server handles at the same time
MaxMinutes == 90    \* minutes the clock of the billing specification runs
MaxRate == 60       \* largest hourly rate of the billing specification

Users == 1..NumUsers
LotIds == 1..MaxLots
ResIds == 1..MaxRes
Workers == 1..NumWorkers
\* the capacities of the concurrent capacity changes: positive ones
PosCaps == 1..MaxCap
\* int(form_data["capacity"]): any integer, negative and zero included
CapInputs == (0 - 1)..MaxCap
\* price_per_hour=form_data["price"]: the hourly rate, in whole units
Prices == {60}
\* the hourly rates of the billing specification
CostRates == {1, 7, MaxRate}
\* request.form.get("vehicle_number", ""): a string over blank and letters
VehicleInputs == { <<>>, <<" ">>, <<"A">>, <<" ", "B", " ">> }

\* ------------------------------------------------------------------ state
VARIABLES
    lots,           \* parking_lots: id -> row
    spots,          \* parking_spots: id -> row
    reservations,   \* reservations: id -> row
    now,            \* datetime.now(), in minutes
    flash,          \* the message the last request flashed
    cost,           \* what calculate_cost returned to the last request
    req             \* worker -> the request it is serving

vars == <<lots, spots, reservations, now, flash, cost, req>>

\* SpotStatus
AVAILABLE == "available"
RESERVED == "reserved"
OCCUPIED == "occupied"

\* a nullable DateTime column: <<>> is NULL, <<t>> is the time t
None == <<>>
Some(t) == <<t>>

\* a worker serving no request
Idle == [pc |-> "idle", user |-> 0, lot |-> 0, spot |-> 0]

\* ---------------------------------------------------------------- helpers
Max(S) == CHOOSE x \in S : \A y \in S : y <= x

\* an INTEGER PRIMARY KEY without AUTOINCREMENT: the largest rowid plus one
NextId(ids) == IF ids = {} THEN 1 ELSE Max(ids) + 1

Restrict(f, D) == [x \in D |-> f[x]]

\* str(n) for n >= 0, as a sequence of decimal digits
RECURSIVE str(_)
str(n) == IF n < 10 THEN <<n>> ELSE Append(str(n \div 10), n % 10)

\* s.zfill(width): zeros on the left up to width
RECURSIVE zfill(_, _)
zfill(s, width) == IF Len(s) >= width THEN s ELSE zfill(<<0>> \o s, width)

\* the order of two TEXT values: the first differing character decides,
\* a proper prefix sorts first
RECURSIVE TextLess(_, _)
TextLess(a, b) ==
    IF b = <<>> THEN FALSE
    ELSE IF a = <<>> THEN TRUE
    ELSE IF Head(a) # Head(b) THEN Head(a) < Head(b)
    ELSE TextLess(Tail(a), Tail(b))

\* str.strip(): leading and trailing blanks removed
RECURSIVE lstrip(_)
lstrip(s) == IF s # <<>> /\ Head(s) = " " THEN lstrip(Tail(s)) ELSE s
RECURSIVE rstrip(_)
rstrip(s) ==
    IF s # <<>> /\ s[Len(s)] = " " THEN rstrip(SubSeq(s, 1, Len(s) - 1)) ELSE s
strip(s) == rstrip(lstrip(s))

\* the rows of parking_spots with parking_lot_id = l
SpotsOf(sp, l) == {s \in DOMAIN sp : sp[s].parking_lot_id = l}

\* the reservations with end_time NULL
OpenRes(rs) == {r \in DOMAIN rs : rs[r].end_time = None}

\* ORDER BY spot_number DESC LIMIT k over the spots of lot l: every chosen
\* row sorts no lower than every row left out; equal labels may come in
\* either order
ExcessSpots(sp, l, k) ==
    LET all == SpotsOf(sp, l)
        n == IF k >= Cardinality(all) THEN Cardinality(all) ELSE k
    IN  {S \in SUBSET all :
            /\ Cardinality(S) = n
            /\ \A s \in S : \A t \in all \ S :
                 ~TextLess(sp[s].spot_number, sp[t].spot_number)}

\* a grow that writes AVAILABLE to the spots the facility already has
NewSpots_reset(sp, l, first, last) ==
    LET base == NextId(DOMAIN sp) - first
        ids == (base + first)..(base + last)
    IN  [s \in DOMAIN sp \cup ids |->
            IF s \in DOMAIN sp /\ sp[s].parking_lot_id # l THEN sp[s]
            ELSE IF s \in DOMAIN sp THEN [sp[s] EXCEPT !.status = AVAILABLE]
            ELSE [spot_number |-> zfill(str(s - base), 3),
                  status |-> AVAILABLE,
                  parking_lot_id |-> l]]

\* ParkingSpot rows for range(first, last + 1), added to the session in order
NewSpots(sp, l, first, last) ==
    LET base == NextId(DOMAIN sp) - first
        ids == (base + first)..(base + last)
    IN  [s \in DOMAIN sp \cup ids |->
            IF s \in DOMAIN sp THEN sp[s]
            ELSE [spot_number |-> zfill(str(s - base), 3),
                  status |-> AVAILABLE,
                  parking_lot_id |-> l]]

\* a spot deletion that leaves the reservations of the spot behind
ResAfterDelete_kept(rs, D) == rs

\* sess.delete(spot) for every spot of D, cascading to its reservations
SpotsAfterDelete(sp, D) == Restrict(sp, DOMAIN sp \ D)
ResAfterDelete(rs, D) ==
    Restrict(rs, {r \in DOMAIN rs : rs[r].parking_spot_id \notin D})

\* ------------------------------------------------------- initial state
\* create_db(): empty tables; nothing flashed yet
Init ==
    /\ lots = <<>>
    /\ spots = <<>>
    /\ reservations = <<>>
    /\ now = 0
    /\ flash = "none"
    /\ cost = None
    /\ req = [w \in Workers |-> Idle]

\* ------------------------------------------------------------- billing
\* 3600 seconds of an hour, counted in minutes
MinutesPerHour == 60
\* round(..., 2): amounts are kept in hundredths of the currency unit
CentsPerUnit == 100

\* a fee with no minimum billing
total_hours_unbounded(session_duration) == session_duration

\* max(1, session_duration.total_seconds() / 3600), in sixtieths of an hour
total_hours(session_duration) ==
    IF session_duration > MinutesPerHour THEN session_duration
    ELSE MinutesPerHour

\* round(n / d, 2) for n >= 0, in hundredths: the hundredth nearest to n / d,
\* the even one of two equally near
round2(n, d) ==
    LET q == (CentsPerUnit * n) \div d
        r == (CentsPerUnit * n) % d
    IN  IF 2 * r > d \/ (2 * r = d /\ q % 2 = 1) THEN q + 1 ELSE q

\* calculate_cost(reservation) called at time t, in hundredths
calculate_cost(reservation, sp, lt, t) ==
    LET current_time == IF reservation.end_time = None THEN t
                        ELSE reservation.end_time[1]
        session_duration == current_time - reservation.start_time
        hourly_rate ==
            lt[sp[reservation.parking_spot_id].parking_lot_id].price_per_hour
    IN  round2(total_hours(session_duration) * hourly_rate, MinutesPerHour)

\* ------------------------------------------------- customer requests
\* a reserve_spot that never finds the active reservation
existing_active_reservation_skipped(rs, u) == FALSE

\* db.query(Reservation).filter_by(user_id=..., end_time=None).first()
existing_active_reservation(rs, u) ==
    \E r \in OpenRes(rs) : rs[r].user_id = u

\* a reserve_spot whose query leaves out the status=AVAILABLE filter
available_spot_any_status(sp, l) == SpotsOf(sp, l)

\* the rows db.query(ParkingSpot).filter_by(parking_lot_id=lot_id,
\* status=AVAILABLE).first() may return: no ORDER BY, any matching row
available_spot(sp, l) ==
    {s \in SpotsOf(sp, l) : sp[s].status = AVAILABLE}

\* Reservation(user_id, parking_spot_id, vehicle_number="", start_time=now,
\* occupy_time=None, end_time=None)
new_reservation(u, s, t) ==
    [user_id |-> u, parking_spot_id |-> s, vehicle_number |-> <<>>,
     start_time |-> t, occupy_time |-> None, end_time |-> None]

reserve_spot(u, l) ==
    /\ UNCHANGED <<lots, now, req>>
    /\ cost' = None
    /\ IF existing_active_reservation(reservations, u)
       THEN /\ flash' = "already_active"
            /\ UNCHANGED <<spots, reservations>>
       ELSE IF available_spot(spots, l) = {}
       THEN /\ flash' = "no_available_spaces"
            /\ UNCHANGED <<spots, reservations>>
       ELSE \E s \in available_spot(spots, l) :
            LET rid == NextId(DOMAIN reservations) IN
            /\ rid <= MaxRes
            /\ reservations' =
                 [r \in DOMAIN reservations \cup {rid} |->
                    IF r = rid THEN new_reservation(u, s, now)
                    ELSE reservations[r]]
            /\ spots' = [spots EXCEPT ![s].status = RESERVED]
            /\ flash' = "reserved"

\* a lookup by id alone, without the user_id filter
own_reservation_any_user(rs, u, rid) == rid \in DOMAIN rs

\* db.query(Reservation).filter_by(id=reservation_id, user_id=...).first()
own_reservation(rs, u, rid) ==
    rid \in DOMAIN rs /\ rs[rid].user_id = u

\* a handler that also takes an occupied session for a completed one
already_completed_or_occupied(rs, rid) ==
    rs[rid].end_time # None \/ rs[rid].occupy_time # None

\* a handler that never finds the session completed
already_completed_ignored(rs, rid) == FALSE

\* if reservation.end_time: the session has been completed
already_completed(rs, rid) == rs[rid].end_time # None

\* a vehicle number taken from the form without strip()
vehicle_number_unstripped(vn) == vn

\* request.form.get("vehicle_number", "").strip()
vehicle_number(vn) == strip(vn)

\* an occupy_spot that hands the spot back instead of occupying it
occupied_spot_freed(row) == [row EXCEPT !.status = AVAILABLE]

\* parking_spot.status = SpotStatus.OCCUPIED
occupied_spot(row) == [row EXCEPT !.status = OCCUPIED]

occupy_spot(u, rid, vn) ==
    /\ UNCHANGED <<lots, now, req>>
    /\ cost' = None
    /\ IF ~own_reservation(reservations, u, rid)
       THEN /\ flash' = "session_not_found"
            /\ UNCHANGED <<spots, reservations>>
       ELSE IF already_completed(reservations, rid)
       THEN /\ flash' = "already_completed"
            /\ UNCHANGED <<spots, reservations>>
       ELSE IF vehicle_number(vn) = <<>>
       THEN /\ flash' = "vehicle_required"
            /\ UNCHANGED <<spots, reservations>>
       ELSE LET s == reservations[rid].parking_spot_id IN
            /\ s \in DOMAIN spots
            /\ reservations' =
                 [reservations EXCEPT ![rid].vehicle_number = vehicle_number(vn),
                                      ![rid].occupy_time = Some(now)]
            /\ spots' = [spots EXCEPT ![s] = occupied_spot(@)]
            /\ flash' = "occupied"

\* a release_spot that leaves the status of the spot alone
released_spot_untouched(row) == row

\* parking_spot.status = SpotStatus.AVAILABLE
released_spot(row) == [row EXCEPT !.status = AVAILABLE]

release_spot(u, rid) ==
    /\ UNCHANGED <<lots, now, req>>
    /\ IF ~own_reservation(reservations, u, rid)
       THEN /\ flash' = "session_not_found"
            /\ cost' = None
            /\ UNCHANGED <<spots, reservations>>
       ELSE IF already_completed(reservations, rid)
       THEN /\ flash' = "already_completed"
            /\ cost' = None
            /\ UNCHANGED <<spots, reservations>>
       ELSE LET s == reservations[rid].parking_spot_id IN
            /\ s \in DOMAIN spots
            /\ reservations' = [reservations EXCEPT ![rid].end_time = Some(now)]
            /\ spots' = [spots EXCEPT ![s] = released_spot(@)]
            \* final_cost = calculate_cost(reservation)
            /\ cost' = Some(calculate_cost(reservations'[rid], spots, lots, now))
            /\ flash' = "released"

\* --------------------------------------------- capacity reconciliation
\* the candidates the listener's ORDER BY spot_number DESC LIMIT
\* spots_to_remove query may return when it shrinks; {} when the listener
\* does not reach the query
listener_excess(sp, l, value, oldvalue, in_session) ==
    LET previous == IF oldvalue = None THEN 0 ELSE oldvalue[1]
        existing_spots_count == Cardinality(SpotsOf(sp, l))
    IN  IF value <= 0 \/ value = previous \/ ~in_session
           \/ value >= existing_spots_count
        THEN {{}}
        ELSE ExcessSpots(sp, l, existing_spots_count - value)

\* a shrink that deletes one AVAILABLE candidate and leaves the others
removable_first(sp, excess_spots) ==
    LET free == {s \in excess_spots : sp[s].status = AVAILABLE}
    IN  IF free = {} THEN {} ELSE {CHOOSE s \in free : TRUE}

\* a shrink that deletes every candidate, whatever its status
removable_any_status(sp, excess_spots) == excess_spots

\* the spots of excess_spots the shrink deletes: the AVAILABLE ones
removable(sp, excess_spots) ==
    {s \in excess_spots : sp[s].status = AVAILABLE}

\* a session whose queries do not flush the pending deletes first
autoflushed_not(sp, deleted) == sp

\* the spots a query of the session sees once the listener has marked
\* `deleted` for deletion: sessionmaker's autoflush issues the DELETEs first
autoflushed(sp, deleted) == SpotsAfterDelete(sp, deleted)

\* _manage_parking_spots(target, value, oldvalue): the 'set' listener of
\* ParkingLot.number_of_spots, run before the attribute takes the value.
\* oldvalue is None for NO_VALUE (an attribute never set); in_session is
\* object_session(target) is not None. The result is the session's spots and
\* reservations after the listener, the value the listener itself assigned
\* to number_of_spots (None when it assigned nothing) and the number of
\* listener invocations made.
RECURSIVE manage_parking_spots(_, _, _, _, _, _, _)
manage_parking_spots(sp, rs, l, value, oldvalue, in_session, excess_spots) ==
    LET previous == IF oldvalue = None THEN 0 ELSE oldvalue[1]
        existing_spots_count == Cardinality(SpotsOf(sp, l))
        nothing == [spots |-> sp, reservations |-> rs,
                    corrected |-> None, calls |-> 1]
    IN  IF value <= 0 THEN nothing
        ELSE IF value = previous THEN nothing
        ELSE IF ~in_session THEN nothing
        ELSE IF value > existing_spots_count
        THEN [nothing EXCEPT
                !.spots = NewSpots(sp, l, existing_spots_count + 1, value)]
        ELSE IF value < existing_spots_count
        THEN LET deleted == removable(sp, excess_spots)
                 successfully_removed == Cardinality(deleted)
                 blocked_spots == excess_spots \ deleted
                 sp2 == SpotsAfterDelete(sp, deleted)
                 rs2 == ResAfterDelete(rs, deleted)
             IN  IF blocked_spots # {}
                 THEN \* target.number_of_spots = actual_capacity fires the
                      \* listener again; the attribute still holds oldvalue
                      LET actual_capacity ==
                              existing_spots_count - successfully_removed
                          seen == autoflushed(sp, deleted)
                          again == CHOOSE S \in listener_excess(
                                       seen, l, actual_capacity, oldvalue, TRUE) : TRUE
                          inner == manage_parking_spots(
                                       seen, rs2, l, actual_capacity, oldvalue,
                                       TRUE, again)
                      IN  [spots |-> SpotsAfterDelete(inner.spots, deleted),
                           reservations |-> inner.reservations,
                           corrected |-> Some(actual_capacity),
                           calls |-> inner.calls + 1]
                 ELSE [nothing EXCEPT !.spots = sp2, !.reservations = rs2]
        ELSE nothing

\* lot.number_of_spots = value: the listener is registered without
\* retval, so once it returns the attribute takes the assigned value,
\* whatever the listener wrote to the attribute meanwhile
set_number_of_spots(row, value, listened) ==
    [row EXCEPT !.number_of_spots = value]

\* ------------------------------------------------ administrator requests
\* a constructor whose object already belongs to the session
constructed_in_session_always(l, ls) == TRUE

\* object_session(target) while ParkingLot(...) is being constructed: the
\* object is in no session before db.add(new_lot)
constructed_in_session(l, ls) == l \in DOMAIN ls

add_lot(capacity) ==
    \E price \in Prices :
    LET id == NextId(DOMAIN lots)
        \* ParkingLot(number_of_spots=capacity): the listener runs on an
        \* object that is in no session yet
        built == manage_parking_spots(spots, reservations, id, capacity,
                                      None, constructed_in_session(id, lots),
                                      {})
        new_lot == set_number_of_spots(
                       [number_of_spots |-> 0, price_per_hour |-> price],
                       capacity, built)
    IN  /\ id <= MaxLots
        /\ NextId(DOMAIN built.spots) + capacity - 1 <= MaxSpotId
        /\ lots' = [x \in DOMAIN lots \cup {id} |->
                      IF x = id THEN new_lot ELSE lots[x]]
        \* for i in range(1, capacity + 1): db.add(ParkingSpot(...))
        /\ spots' = NewSpots(built.spots, id, 1, capacity)
        /\ reservations' = built.reservations
        /\ flash' = "facility_created"
        /\ cost' = None
        /\ UNCHANGED <<now, req>>

\* a validation that finds no spot in use
unavailable_spots_none(sp, spots_to_check) == {}

\* the spots edit_lot names when it refuses a reduction
unavailable_spots(sp, spots_to_check) ==
    {s \in spots_to_check : sp[s].status # AVAILABLE}

edit_lot(l, new_capacity) ==
    /\ UNCHANGED <<now, req>>
    /\ cost' = None
    /\ IF l \notin DOMAIN lots
       THEN /\ flash' = "facility_not_found"
            /\ UNCHANGED <<lots, spots, reservations>>
       ELSE LET original_capacity == lots[l].number_of_spots IN
            \E spots_to_check \in
                 (IF new_capacity < original_capacity
                  THEN ExcessSpots(spots, l, original_capacity - new_capacity)
                  ELSE {{}}) :
              IF unavailable_spots(spots, spots_to_check) # {}
              THEN /\ flash' = "cannot_reduce"
                   /\ UNCHANGED <<lots, spots, reservations>>
              ELSE \E price \in Prices, excess_spots \in listener_excess(
                       spots, l, new_capacity, Some(original_capacity), TRUE) :
                   LET listened == manage_parking_spots(
                           spots, reservations, l, new_capacity,
                           Some(original_capacity), TRUE, excess_spots)
                   IN  /\ NextId(DOMAIN listened.spots) - 1 <= MaxSpotId
                       /\ spots' = listened.spots
                       /\ reservations' = listened.reservations
                       \* lot.price_per_hour = ...; lot.number_of_spots = ...
                       /\ lots' = [lots EXCEPT ![l] =
                              set_number_of_spots(
                                [@ EXCEPT !.price_per_hour = price],
                                new_capacity, listened)]
                       /\ flash' = IF new_capacity > original_capacity
                                   THEN "facility_updated_added"
                                   ELSE IF new_capacity < original_capacity
                                   THEN "facility_updated_reduced"
                                   ELSE "facility_updated"

\* a delete_lot that skips the check for active sessions
any_spot_in_use_skipped(sp, l) == FALSE

\* any(spot.status != SpotStatus.AVAILABLE for spot in lot.spots)
any_spot_in_use(sp, l) ==
    \E s \in SpotsOf(sp, l) : sp[s].status # AVAILABLE

delete_lot(l) ==
    /\ UNCHANGED <<now, req>>
    /\ cost' = None
    /\ IF l \notin DOMAIN lots
       THEN /\ flash' = "facility_not_found"
            /\ UNCHANGED <<lots, spots, reservations>>
       ELSE IF any_spot_in_use(spots, l)
       THEN /\ flash' = "cannot_delete"
            /\ UNCHANGED <<lots, spots, reservations>>
       ELSE \* db.delete(lot) cascades to its spots and their reservations
            /\ lots' = Restrict(lots, DOMAIN lots \ {l})
            /\ spots' = SpotsAfterDelete(spots, SpotsOf(spots, l))
            /\ reservations' = ResAfterDelete(reservations, SpotsOf(spots, l))
            /\ flash' = "facility_deleted"

sync_lot_spots(l) ==
    /\ UNCHANGED <<now, lots, req>>
    /\ cost' = None
    /\ IF l \notin DOMAIN lots
       THEN /\ flash' = "facility_not_found"
            /\ UNCHANGED <<spots, reservations>>
       ELSE LET current_spots_count == Cardinality(SpotsOf(spots, l))
                expected_spots == lots[l].number_of_spots
            IN  IF current_spots_count < expected_spots
                THEN /\ NextId(DOMAIN spots) + expected_spots
                            - current_spots_count - 1 <= MaxSpotId
                     /\ spots' = NewSpots(spots, l, current_spots_count + 1,
                                          expected_spots)
                     /\ UNCHANGED reservations
                     /\ flash' = "added_missing"
                ELSE IF current_spots_count > expected_spots
                THEN \E excess_spots \in ExcessSpots(
                         spots, l, current_spots_count - expected_spots) :
                       LET deleted == removable(spots, excess_spots) IN
                       /\ spots' = SpotsAfterDelete(spots, deleted)
                       /\ reservations' = ResAfterDelete(reservations, deleted)
                       /\ flash' = IF deleted # {} THEN "removed_excess"
                                   ELSE "could_not_remove"
                ELSE /\ flash' = "already_synchronized"
                     /\ UNCHANGED <<spots, reservations>>

\* ------------------------------------------------------- specification
\* requests served one at a time
Next ==
    \/ \E u \in Users, l \in LotIds : reserve_spot(u, l)
    \/ \E u \in Users, r \in ResIds, vn \in VehicleInputs : occupy_spot(u, r, vn)
    \/ \E u \in Users, r \in ResIds : release_spot(u, r)
    \/ \E c \in CapInputs : add_lot(c)
    \/ \E l \in LotIds, c \in CapInputs : edit_lot(l, c)
    \/ \E l \in LotIds : delete_lot(l)
    \/ \E l \in LotIds : sync_lot_spots(l)

Spec == Init /\ [][Next]_vars

\* ----------------------------------------- requests served concurrently
\* reserve_spot as worker w serves it beside other requests: each query
\* and the commit is an access of its own to the database, and what the
\* request read stays in its session until it commits

\* the query for an active reservation of the user
reserve_check(w, u, l) ==
    /\ req[w].pc = "idle"
    /\ UNCHANGED <<lots, spots, reservations, now>>
    /\ IF existing_active_reservation(reservations, u)
       THEN /\ flash' = "already_active"
            /\ cost' = None
            /\ UNCHANGED req
       ELSE /\ req' = [req EXCEPT ![w] =
                         [pc |-> "checked", user |-> u, lot |-> l, spot |-> 0]]
            /\ UNCHANGED <<flash, cost>>

\* the query for an available spot of the lot
reserve_select(w) ==
    /\ req[w].pc = "checked"
    /\ UNCHANGED <<lots, spots, reservations, now>>
    /\ IF available_spot(spots, req[w].lot) = {}
       THEN /\ flash' = "no_available_spaces"
            /\ cost' = None
            /\ req' = [req EXCEPT ![w] = Idle]
       ELSE /\ \E s \in available_spot(spots, req[w].lot) :
                 req' = [req EXCEPT ![w].pc = "selected", ![w].spot = s]
            /\ UNCHANGED <<flash, cost>>

\* db.commit(): UPDATE parking_spots SET status WHERE id = the spot read,
\* INSERT INTO reservations; an UPDATE that matches no row fails the commit
reserve_commit(w) ==
    LET s == req[w].spot
        rid == NextId(DOMAIN reservations)
    IN  /\ req[w].pc = "selected"
        /\ UNCHANGED <<lots, now>>
        /\ cost' = None
        /\ req' = [req EXCEPT ![w] = Idle]
        /\ IF s \notin DOMAIN spots
           THEN /\ flash' = "error"
                /\ UNCHANGED <<spots, reservations>>
           ELSE /\ rid <= MaxRes
                /\ reservations' =
                     [r \in DOMAIN reservations \cup {rid} |->
                        IF r = rid THEN new_reservation(req[w].user, s, now)
                        ELSE reservations[r]]
                /\ spots' = [spots EXCEPT ![s].status = RESERVED]
                /\ flash' = "reserved"

NextConc ==
    \/ \E w \in Workers, u \in Users, l \in LotIds : reserve_check(w, u, l)
    \/ \E w \in Workers : reserve_select(w)
    \/ \E w \in Workers : reserve_commit(w)
    \/ \E u \in Users, r \in ResIds, vn \in VehicleInputs : occupy_spot(u, r, vn)
    \/ \E u \in Users, r \in ResIds : release_spot(u, r)
    \/ \E c \in CapInputs : add_lot(c)

SpecConc == Init /\ [][NextConc]_vars

\* ----------------------------------------------- billing over the clock
\* a session that was reserved at time 0 on the one spot of a facility
\* whose hourly rate is drawn from CostRates
InitCost ==
    /\ \E price \in CostRates :
         lots = <<[number_of_spots |-> 1, price_per_hour |-> price]>>
    /\ spots = <<[parking_lot_id |-> 1, spot_number |-> zfill(str(1), 3),
                  status |-> RESERVED]>>
    /\ reservations = <<new_reservation(1, 1, 0)>>
    /\ now = 0
    /\ flash = "reserved"
    /\ cost = None
    /\ req = [w \in Workers |-> Idle]

\* a minute passes
Tick ==
    /\ now < MaxMinutes
    /\ now' = now + 1
    /\ UNCHANGED <<lots, spots, reservations, flash, cost, req>>

\* get_reservation_details(reservation): details['cost'] of the dashboard
get_reservation_details(r) ==
    /\ r \in DOMAIN reservations
    /\ cost' = Some(calculate_cost(reservations[r], spots, lots, now))
    /\ UNCHANGED <<lots, spots, reservations, now, flash, req>>

NextCost ==
    \/ Tick
    \/ \E r \in ResIds : get_reservation_details(r)
    \/ \E u \in Users, r \in ResIds : release_spot(u, r)

SpecCost == InitCost /\ [][NextCost]_vars

\* ------------------------------------ capacity changes served concurrently
\* edit_lot and sync_lot_spots as worker w serves them beside other
\* requests. The session keeps the ParkingLot row it loaded; a query reads
\* what is committed then; the writes reach the database at the flush and
\* the commit. In edit_lot the assignments before number_of_spots make the
\* row dirty (the price is a form string, never equal to the stored
\* Numeric), so the listener's first query flushes an UPDATE and the
\* connection holds the write lock from there to the commit.

\* db.get(ParkingLot, lot_id) and the validation of a reduction
edit_load(w, l, new_capacity) ==
    /\ req[w].pc = "idle"
    /\ UNCHANGED <<lots, spots, reservations, now>>
    /\ IF l \notin DOMAIN lots
       THEN /\ flash' = "facility_not_found"
            /\ cost' = None
            /\ UNCHANGED req
       ELSE LET original_capacity == lots[l].number_of_spots IN
            \E spots_to_check \in
                 (IF new_capacity < original_capacity
                  THEN ExcessSpots(spots, l, original_capacity - new_capacity)
                  ELSE {{}}) :
              IF unavailable_spots(spots, spots_to_check) # {}
              THEN /\ flash' = "cannot_reduce"
                   /\ cost' = None
                   /\ UNCHANGED req
              ELSE /\ req' = [req EXCEPT ![w] =
                                [pc |-> "edit_loaded", lot |-> l,
                                 value |-> new_capacity,
                                 original |-> original_capacity,
                                 seen |-> [s \in spots_to_check |->
                                             spots[s].status]]]
                   /\ UNCHANGED <<flash, cost>>

\* the rows a query of a session returns: a spot the session has loaded
\* before keeps the attributes of the first load (identity map)
identity_map(sp, seen) ==
    [s \in DOMAIN sp |->
       IF s \in DOMAIN seen THEN [sp[s] EXCEPT !.status = seen[s]] ELSE sp[s]]

\* the assignments, the listener under the write lock, and db.commit():
\* oldvalue is the capacity the session loaded, the count is the committed
\* one, the spots the validation query loaded keep the status it read, and
\* the UPDATE carries number_of_spots only if the value differs from the
\* loaded one
edit_commit(w) ==
    LET l == req[w].lot
        new_capacity == req[w].value
        original_capacity == req[w].original
        loaded == identity_map(spots, req[w].seen)
    IN  /\ req[w].pc = "edit_loaded"
        /\ l \in DOMAIN lots
        /\ req' = [req EXCEPT ![w] = Idle]
        /\ cost' = None
        /\ UNCHANGED now
        /\ \E price \in Prices, excess_spots \in listener_excess(
                 loaded, l, new_capacity, Some(original_capacity), TRUE) :
             LET listened == manage_parking_spots(
                     loaded, reservations, l, new_capacity,
                     Some(original_capacity), TRUE, excess_spots)
             IN  /\ NextId(DOMAIN listened.spots) - 1 <= MaxSpotId
                 /\ spots' = [s \in DOMAIN listened.spots |->
                                IF s \in DOMAIN spots THEN spots[s]
                                ELSE listened.spots[s]]
                 /\ reservations' = listened.reservations
                 /\ lots' = [lots EXCEPT ![l] =
                        IF new_capacity = original_capacity
                        THEN [@ EXCEPT !.price_per_hour = price]
                        ELSE set_number_of_spots(
                               [@ EXCEPT !.price_per_hour = price],
                               new_capacity, listened)]
                 /\ flash' = IF new_capacity > original_capacity
                             THEN "facility_updated_added"
                             ELSE IF new_capacity < original_capacity
                             THEN "facility_updated_reduced"
                             ELSE "facility_updated"

\* db.get(ParkingLot, lot_id): expected_spots is read from this row
sync_load(w, l) ==
    /\ req[w].pc = "idle"
    /\ UNCHANGED <<lots, spots, reservations, now>>
    /\ IF l \notin DOMAIN lots
       THEN /\ flash' = "facility_not_found"
            /\ cost' = None
            /\ UNCHANGED req
       ELSE /\ req' = [req EXCEPT ![w] =
                         [pc |-> "sync_loaded", lot |-> l,
                          expected |-> lots[l].number_of_spots]]
            /\ UNCHANGED <<flash, cost>>

\* the count query, the excess query and the session's pending inserts
\* and deletes.  db.delete(spot) loads spot.reservations for the cascade:
\* for the first spot deleted nothing is pending and the load takes no
\* lock; the load for a later spot flushes the pending DELETE first, so
\* it runs under the write lock that is held until db.commit()
sync_query(w) ==
    LET l == req[w].lot
        current_spots_count == Cardinality(SpotsOf(spots, l))
        expected_spots == req[w].expected
        plan == [pc |-> "sync_pending", lot |-> l, first |-> 1, last |-> 0,
                 deleted |-> {}, head |-> {}, cascade |-> {},
                 message |-> "already_synchronized"]
    IN  /\ req[w].pc = "sync_loaded"
        /\ UNCHANGED <<lots, spots, reservations, now, flash, cost>>
        /\ IF current_spots_count < expected_spots
           THEN req' = [req EXCEPT ![w] =
                          [plan EXCEPT !.first = current_spots_count + 1,
                                       !.last = expected_spots,
                                       !.message = "added_missing"]]
           ELSE IF current_spots_count > expected_spots
           THEN \E excess_spots \in ExcessSpots(
                    spots, l, current_spots_count - expected_spots) :
                  LET deleted == removable(spots, excess_spots) IN
                  \E head \in ExcessSpots(Restrict(spots, deleted), l, 1) :
                  req' = [req EXCEPT ![w] =
                            [plan EXCEPT !.deleted = deleted,
                                         !.head = head,
                                         !.cascade =
                                            {r \in DOMAIN reservations :
                                               reservations[r].parking_spot_id
                                                 \in head},
                                         !.message =
                                            IF deleted # {}
                                            THEN "removed_excess"
                                            ELSE "could_not_remove"]]
           ELSE req' = [req EXCEPT ![w] = plan]

\* db.commit(): the INSERTs and the DELETEs by primary key; a DELETE that
\* matches no row only warns.  The reservations deleted with the first
\* spot are the ones loaded by sync_query, those deleted with the other
\* spots are the ones the table holds now.
sync_commit(w) ==
    LET l == req[w].lot
        kept == SpotsAfterDelete(spots, req[w].deleted)
    IN  /\ req[w].pc = "sync_pending"
        /\ NextId(DOMAIN kept) + req[w].last - req[w].first <= MaxSpotId
        /\ spots' = NewSpots(kept, l, req[w].first, req[w].last)
        /\ reservations' =
             ResAfterDelete(
               Restrict(reservations, DOMAIN reservations \ req[w].cascade),
               req[w].deleted \ req[w].head)
        /\ flash' = req[w].message
        /\ cost' = None
        /\ req' = [req EXCEPT ![w] = Idle]
        /\ UNCHANGED <<lots, now>>

NextCap ==
    \/ \E c \in PosCaps : add_lot(c)
    \/ \E w \in Workers, l \in LotIds, c \in PosCaps : edit_load(w, l, c)
    \/ \E w \in Workers : edit_commit(w)
    \/ \E w \in Workers, l \in LotIds : sync_load(w, l)
    \/ \E w \in Workers : sync_query(w)
    \/ \E w \in Workers : sync_commit(w)

SpecCap == Init /\ [][NextCap]_vars

\* ---------------------------------- reserve_spot during a capacity change
\* reserve_spot handled while the administrator's edit_lot or
\* sync_lot_spots is in progress, each request in a session of its own: the
\* last worker serves the administrator, the other workers the customers
AdminWorkers == {w \in Workers : w = NumWorkers}
CustomerWorkers == Workers \ AdminWorkers

NextShrink ==
    \/ \E c \in PosCaps : add_lot(c)
    \/ \E w \in CustomerWorkers, u \in Users, l \in LotIds :
         reserve_check(w, u, l)
    \/ \E w \in CustomerWorkers : reserve_select(w)
    \/ \E w \in CustomerWorkers : reserve_commit(w)
    \/ \E w \in AdminWorkers, l \in LotIds, c \in CapInputs :
         edit_load(w, l, c)
    \/ \E w \in AdminWorkers : edit_commit(w)
    \/ \E w \in AdminWorkers, l \in LotIds : sync_load(w, l)
    \/ \E w \in AdminWorkers : sync_query(w)
    \/ \E w \in AdminWorkers : sync_commit(w)

SpecShrink == Init /\ [][NextShrink]_vars

\* --------------------- sync_lot_spots after concurrent capacity changes
\* no request is being handled
Quiet == \A w \in Workers : req[w] = Idle

\* an edit_lot and a sync_lot_spots handled concurrently, each by a worker
\* of its own, and, once they are over, sync_lot_spots served on its own
NextSync ==
    \/ \E c \in PosCaps : add_lot(c)
    \/ \E u \in Users, l \in LotIds : reserve_spot(u, l)
    \/ \E w \in Workers \ AdminWorkers, l \in LotIds, c \in PosCaps :
         edit_load(w, l, c)
    \/ \E w \in Workers \ AdminWorkers : edit_commit(w)
    \/ \E w \in AdminWorkers, l \in LotIds : sync_load(w, l)
    \/ \E w \in AdminWorkers : sync_query(w)
    \/ \E w \in AdminWorkers : sync_commit(w)
    \/ Quiet /\ \E l \in LotIds : sync_lot_spots(l)

SpecSync == Init /\ [][NextSync]_vars

\* ------------------------------------ concurrent occupy_spot/release_spot
\* Each request runs in a session of its own.  A SELECT takes no lock, so
\* the rows a session has read can be changed by another session before it
\* writes.  The first UPDATE of a session takes SQLite's write lock, which
\* is held until db.commit(): from that statement on the request is one
\* step.  An UPDATE carries only the columns the session changed.

\* the reservation query and the checks of occupy_spot
occupy_load(w, u, rid, vn) ==
    /\ req[w].pc = "idle"
    /\ UNCHANGED <<lots, spots, reservations, now>>
    /\ IF ~own_reservation(reservations, u, rid)
       THEN /\ flash' = "session_not_found"
            /\ cost' = None
            /\ UNCHANGED req
       ELSE IF already_completed(reservations, rid)
       THEN /\ flash' = "already_completed"
            /\ cost' = None
            /\ UNCHANGED req
       ELSE IF vehicle_number(vn) = <<>>
       THEN /\ flash' = "vehicle_required"
            /\ cost' = None
            /\ UNCHANGED req
       ELSE /\ req' = [req EXCEPT ![w] =
                         [pc |-> "occupy_loaded", res |-> rid,
                          vn |-> vehicle_number(vn),
                          loaded_vn |-> reservations[rid].vehicle_number]]
            /\ UNCHANGED <<flash, cost>>

\* db.get(ParkingSpot, ...) of occupy_spot.  When the vehicle number differs
\* from the one loaded, the query first flushes UPDATE reservations SET
\* vehicle_number, and the rest of the request up to db.commit() runs under
\* the write lock; otherwise the spot is read without a lock.
occupy_get(w) ==
    LET rid == req[w].res
        s == reservations[rid].parking_spot_id
    IN  /\ req[w].pc = "occupy_loaded"
        /\ UNCHANGED <<lots, now>>
        /\ IF req[w].vn # req[w].loaded_vn
           THEN /\ reservations' =
                     [reservations EXCEPT ![rid].vehicle_number = req[w].vn,
                                          ![rid].occupy_time = Some(now)]
                /\ spots' = [spots EXCEPT ![s] = occupied_spot(@)]
                /\ flash' = "occupied"
                /\ cost' = None
                /\ req' = [req EXCEPT ![w] = Idle]
           ELSE /\ req' = [req EXCEPT ![w] =
                             [pc |-> "occupy_got", res |-> rid,
                              status |-> spots[s].status]]
                /\ UNCHANGED <<spots, reservations, flash, cost>>

\* db.commit() of an occupy_spot that read the spot without a lock: UPDATE
\* parking_spots SET status unless the status read was OCCUPIED already,
\* UPDATE reservations SET occupy_time
occupy_commit(w) ==
    LET rid == req[w].res
        s == reservations[rid].parking_spot_id
    IN  /\ req[w].pc = "occupy_got"
        /\ UNCHANGED <<lots, now>>
        /\ reservations' = [reservations EXCEPT ![rid].occupy_time = Some(now)]
        /\ spots' = IF req[w].status = OCCUPIED THEN spots
                    ELSE [spots EXCEPT ![s] = occupied_spot(@)]
        /\ flash' = "occupied"
        /\ cost' = None
        /\ req' = [req EXCEPT ![w] = Idle]

\* the reservation query and the checks of release_spot
release_load(w, u, rid) ==
    /\ req[w].pc = "idle"
    /\ UNCHANGED <<lots, spots, reservations, now>>
    /\ IF ~own_reservation(reservations, u, rid)
       THEN /\ flash' = "session_not_found"
            /\ cost' = None
            /\ UNCHANGED req
       ELSE IF already_completed(reservations, rid)
       THEN /\ flash' = "already_completed"
            /\ cost' = None
            /\ UNCHANGED req
       ELSE /\ req' = [req EXCEPT ![w] = [pc |-> "release_loaded", res |-> rid]]
            /\ UNCHANGED <<flash, cost>>

\* db.get(ParkingSpot, ...) of release_spot: nothing is pending, the spot
\* is read without a lock
release_get(w) ==
    LET rid == req[w].res
        s == reservations[rid].parking_spot_id
    IN  /\ req[w].pc = "release_loaded"
        /\ UNCHANGED <<lots, spots, reservations, now, flash, cost>>
        /\ req' = [req EXCEPT ![w] =
                     [pc |-> "release_got", res |-> rid,
                      status |-> spots[s].status]]

\* calculate_cost and db.commit() of release_spot: UPDATE parking_spots SET
\* status unless the status read was AVAILABLE already, UPDATE reservations
\* SET end_time
release_commit(w) ==
    LET rid == req[w].res
        s == reservations[rid].parking_spot_id
    IN  /\ req[w].pc = "release_got"
        /\ UNCHANGED <<lots, now>>
        /\ reservations' = [reservations EXCEPT ![rid].end_time = Some(now)]
        /\ spots' = IF req[w].status = AVAILABLE THEN spots
                    ELSE [spots EXCEPT ![s] = released_spot(@)]
        /\ cost' = Some(calculate_cost(reservations'[rid], spots, lots, now))
        /\ flash' = "released"
        /\ req' = [req EXCEPT ![w] = Idle]

NextSess ==
    \/ \E c \in PosCaps : add_lot(c)
    \/ \E u \in Users, l \in LotIds : reserve_spot(u, l)
    \/ \E w \in Workers, u \in Users, r \in ResIds, vn \in VehicleInputs :
         occupy_load(w, u, r, vn)
    \/ \E w \in Workers : occupy_get(w)
    \/ \E w \in Workers : occupy_commit(w)
    \/ \E w \in Workers, u \in Users, r \in ResIds : release_load(w, u, r)
    \/ \E w \in Workers : release_get(w)
    \/ \E w \in Workers : release_commit(w)

SpecSess == Init /\ [][NextSess]_vars

\* ------------------------------------------ customer requests over the clock
\* an hour passes between two readings of datetime.now()
Hour ==
    /\ now + MinutesPerHour <= MaxMinutes
    /\ now' = now + MinutesPerHour
    /\ UNCHANGED <<lots, spots, reservations, flash, cost, req>>

\* reserve, occupy and release served one at a time while time passes
NextClock ==
    \/ Hour
    \/ \E c \in PosCaps : add_lot(c)
    \/ \E u \in Users, l \in LotIds : reserve_spot(u, l)
    \/ \E u \in Users, r \in ResIds, vn \in VehicleInputs : occupy_spot(u, r, vn)
    \/ \E u \in Users, r \in ResIds : release_spot(u, r)

SpecClock == Init /\ [][NextClock]_vars

\* --------------------------------------------- edits of a priced facility
\* a facility created with MaxCap spots and an hourly rate that may differ
\* from the one the edit form submits, edited while customers reserve and
\* release
InitEdit ==
    /\ \E price \in CostRates :
         lots = <<[number_of_spots |-> MaxCap, price_per_hour |-> price]>>
    /\ spots = NewSpots(<<>>, 1, 1, MaxCap)
    /\ reservations = <<>>
    /\ now = 0
    /\ flash = "facility_created"
    /\ cost = None
    /\ req = [w \in Workers |-> Idle]

NextEdit ==
    \/ \E l \in LotIds, c \in CapInputs : edit_lot(l, c)
    \/ \E u \in Users, l \in LotIds : reserve_spot(u, l)
    \/ \E u \in Users, r \in ResIds : release_spot(u, r)

SpecEdit == InitEdit /\ [][NextEdit]_vars

\* ------------------------- concurrent occupy_spot/release_spot over the clock
\* half an hour passes between two statements
HalfHour ==
    /\ now + MinutesPerHour \div 2 <= MaxMinutes
    /\ now' = now + MinutesPerHour \div 2
    /\ UNCHANGED <<lots, spots, reservations, flash, cost, req>>

\* the owner's occupy_spot and release_spot requests for the session of
\* InitCost, each handled by a worker in a session of its own while the
\* clock runs
NextRace ==
    \/ HalfHour
    \/ \E w \in Workers, u \in Users, r \in ResIds, vn \in VehicleInputs :
         occupy_load(w, u, r, vn)
    \/ \E w \in Workers : occupy_get(w)
    \/ \E w \in Workers : occupy_commit(w)
    \/ \E w \in Workers, u \in Users, r \in ResIds : release_load(w, u, r)
    \/ \E w \in Workers : release_get(w)
    \/ \E w \in Workers : release_commit(w)

SpecRace == InitCost /\ [][NextRace]_vars

\* ----------------------------------------- every open session is released
\* release_spot of reservation r by its owner going through
ReleaseOf(r) ==
    /\ r \in OpenRes(reservations)
    /\ release_spot(reservations[r].user_id, r)

\* requests served one at a time, where no customer leaves a session open
\* for ever
SpecLive == Spec /\ \A r \in ResIds : WF_vars(ReleaseOf(r))

\* -------------------------------------------- requests that may fail
\* A request runs in one transaction of its session: worker 1 begins it,
\* the handler makes its writes, and then either db.commit() makes them
\* durable or a persistence failure ends the request before the commit.
Database == [lots |-> lots, spots |-> spots, reservations |-> reservations]

\* a rollback that leaves the flushed writes in place
rollback_keeps_writes(point, written) == written

\* db.rollback(), or the close of the session that leaves "with
\* SessionLocal() as db" through an exception: the database is as it was
\* when the transaction began
rollback(point, written) == point

begin_request ==
    /\ req[1].pc \in {"idle", "failed"}
    /\ req' = [req EXCEPT ![1] = [pc |-> "begun", point |-> Database]]
    /\ flash' = "none"
    /\ cost' = None
    /\ UNCHANGED <<lots, spots, reservations, now>>

\* db.commit()
commit_request ==
    /\ req[1].pc = "begun"
    /\ flash # "none"
    /\ req' = [req EXCEPT ![1] = Idle]
    /\ UNCHANGED <<lots, spots, reservations, now, flash, cost>>

\* the failure: raised before the handler wrote anything or after its
\* writes were flushed, never after the commit
fail_request ==
    LET after == rollback(req[1].point, Database) IN
    /\ req[1].pc = "begun"
    /\ lots' = after.lots
    /\ spots' = after.spots
    /\ reservations' = after.reservations
    /\ flash' = "error"
    /\ cost' = None
    /\ req' = [req EXCEPT ![1] =
                 [pc |-> "failed", dirty |-> Database # req[1].point]]
    /\ UNCHANGED now

\* the handler of the request that has begun and has done nothing yet
Handling == req[1].pc = "begun" /\ flash = "none"

NextFail ==
    \/ begin_request
    \/ commit_request
    \/ fail_request
    \/ Handling /\ \E u \in Users, l \in LotIds : reserve_spot(u, l)
    \/ Handling /\ \E u \in Users, r \in ResIds, vn \in VehicleInputs :
                     occupy_spot(u, r, vn)
    \/ Handling /\ \E u \in Users, r \in ResIds : release_spot(u, r)
    \/ Handling /\ \E c \in CapInputs : add_lot(c)
    \/ Handling /\ \E l \in LotIds, c \in CapInputs : edit_lot(l, c)
    \/ Handling /\ \E l \in LotIds : sync_lot_spots(l)

SpecFail == Init /\ [][NextFail]_vars

\* ------------------------------------------------------------ properties
\* the open reservations of user u, and those that reference spot s
OpenOfUser(u) == {r \in OpenRes(reservations) : reservations[r].user_id = u}
OpenOnSpot(s) ==
    {r \in OpenRes(reservations) : reservations[r].parking_spot_id = s}
Completed == DOMAIN reservations \ OpenRes(reservations)

\* the step is a capacity reduction path: edit_lot or sync_lot_spots
CapacityStep ==
    \/ \E l \in LotIds, c \in CapInputs : edit_lot(l, c)
    \/ \E l \in LotIds : sync_lot_spots(l)

\* a vehicle number that is empty or holds blanks only
Blank(vn) == \A i \in 1..Len(vn) : vn[i] = " "

\* C1: with requests served one at a time, in every reachable state each
\* user has at most one reservation whose end_time is null.
C1_OneOpenPerUser ==
    \A u \in Users : Cardinality(OpenOfUser(u)) <= 1

\* C1 witness: a user who completed one session and holds an open one has
\* just been refused a further reservation.
C1_Witness ==
    /\ flash = "already_active"
    /\ \E u \in Users :
         /\ Cardinality(OpenOfUser(u)) = 1
         /\ \E r \in Completed : reservations[r].user_id = u

\* C2: with requests served one at a time, a spot is RESERVED or OCCUPIED
\* exactly when one open reservation references it, an AVAILABLE spot is
\* referenced by no open reservation, and a spot is OCCUPIED exactly when
\* its open reservation has occupy_time set.
C2_StatusMatchesOpenReservation ==
    \A s \in DOMAIN spots :
      /\ spots[s].status \in {RESERVED, OCCUPIED}
           <=> Cardinality(OpenOnSpot(s)) = 1
      /\ spots[s].status = AVAILABLE => OpenOnSpot(s) = {}
      /\ spots[s].status = OCCUPIED
           <=> \E r \in OpenOnSpot(s) : reservations[r].occupy_time # None

\* C2 witness: one spot is OCCUPIED under an open reservation with
\* occupy_time set while another, released, is AVAILABLE again and keeps
\* its completed reservation.
C2_Witness ==
    \E s, t \in DOMAIN spots :
      /\ spots[s].status = OCCUPIED
      /\ \E r \in OpenOnSpot(s) : reservations[r].occupy_time # None
      /\ spots[t].status = AVAILABLE
      /\ \E r \in Completed : reservations[r].parking_spot_id = t

\* C3: after every completed add_lot or edit_lot, for any submitted integer
\* capacity, the number of spots of the facility equals its
\* number_of_spots.
C3_CountEqualsCapacityAfterEdit ==
    [][\A l \in LotIds :
         ( /\ \/ \E c \in CapInputs : add_lot(c) /\ l = NextId(DOMAIN lots)
              \/ \E c \in CapInputs : edit_lot(l, c) /\ flash' # "cannot_reduce"
           /\ l \in DOMAIN lots' )
         => Cardinality(SpotsOf(spots', l)) = lots'[l].number_of_spots]_vars

\* C4: a capacity reduction (edit_lot through the listener, or
\* sync_lot_spots) deletes a spot only if its status is AVAILABLE when it
\* is deleted: no step that removes a RESERVED or OCCUPIED spot is an
\* edit_lot or a sync_lot_spots.
C4_ShrinkDeletesOnlyAvailable ==
    [][(\E s \in DOMAIN spots \ DOMAIN spots' : spots[s].status # AVAILABLE)
         => ~CapacityStep]_vars

\* C4 witness: sync_lot_spots has removed excess spots of a lot and a spot
\* that is in use is still there.
C4_Witness ==
    /\ flash = "removed_excess"
    /\ \E s \in DOMAIN spots : spots[s].status # AVAILABLE

\* C5: two reserve_spot requests that run concurrently are never both
\* assigned the same spot: no spot is referenced by two open reservations.
C5_NoSpotAssignedTwice ==
    \A s \in DOMAIN spots : Cardinality(OpenOnSpot(s)) <= 1

\* C6: two concurrent reserve_spot requests of the same user never both
\* create a reservation: no two distinct open reservations belong to one
\* user.
C6_NoUserReservesTwice ==
    \A r1, r2 \in OpenRes(reservations) :
      reservations[r1].user_id = reservations[r2].user_id => r1 = r2

\* C7: when edit_lot lowers the capacity from C to V and some of the C - V
\* highest-label spots are in use, the AVAILABLE candidates are deleted,
\* the in-use candidates are kept with their status, and the declared
\* capacity ends at C minus the number of deleted spots.
C7_PartialShrinkCorrectsCapacity ==
    [][\A l \in DOMAIN lots, V \in CapInputs :
         LET C == lots[l].number_of_spots IN
         ( /\ V >= 1 /\ V < C /\ C = Cardinality(SpotsOf(spots, l))
           /\ edit_lot(l, V) )
         => \A cand \in ExcessSpots(spots, l, C - V) :
              LET free == {s \in cand : spots[s].status = AVAILABLE} IN
              free # cand =>
                /\ \A s \in free : s \notin DOMAIN spots'
                /\ \A s \in cand \ free :
                     s \in DOMAIN spots' /\ spots'[s] = spots[s]
                /\ l \in DOMAIN lots'
                /\ lots'[l].number_of_spots = C - Cardinality(free)]_vars

\* C8: when edit_lot raises the capacity to a value V greater than the
\* current spot count C of the facility, exactly V - C spots are added,
\* each AVAILABLE, each with a label strictly greater than every label the
\* facility had before.
C8_GrowAddsHigherLabels ==
    [][\A l \in DOMAIN lots, V \in CapInputs :
         LET before == SpotsOf(spots, l)
             added == SpotsOf(spots', l) \ before
         IN  (V > Cardinality(before) /\ edit_lot(l, V))
             => /\ Cardinality(added) = V - Cardinality(before)
                /\ \A a \in added :
                     /\ spots'[a].status = AVAILABLE
                     /\ \A s \in before :
                          TextLess(spots[s].spot_number, spots'[a].spot_number)]_vars

\* C9: with requests served one at a time, no two spots of the same
\* facility have the same spot_number.
C9_LabelsUniquePerLot ==
    \A s, t \in DOMAIN spots :
      ( /\ spots[s].parking_lot_id = spots[t].parking_lot_id
        /\ spots[s].spot_number = spots[t].spot_number ) => s = t

\* C10: occupy_spot with an empty or whitespace-only vehicle number is
\* rejected and changes nothing: the status of every spot and the
\* vehicle_number, occupy_time and end_time of every reservation stay as
\* they were.
C10_BlankVehicleRejected ==
    [][\A u \in Users, r \in ResIds, vn \in VehicleInputs :
         (Blank(vn) /\ occupy_spot(u, r, vn))
         => /\ UNCHANGED <<lots, spots, reservations>>
            /\ flash' \in {"session_not_found", "already_completed",
                          "vehicle_required"}]_vars

\* C10 witness: a blank vehicle number has just been refused for an open
\* reservation whose spot is still RESERVED and whose occupy_time is null.
C10_Witness ==
    /\ flash = "vehicle_required"
    /\ \E r \in OpenRes(reservations) :
         /\ reservations[r].occupy_time = None
         /\ reservations[r].vehicle_number = <<>>
         /\ reservations[r].parking_spot_id \in DOMAIN spots
         /\ spots[reservations[r].parking_spot_id].status = RESERVED

\* C11: reserve_spot is rejected, with no spot status changed and no
\* reservation created, when the user already has an open reservation and
\* also when the requested facility has no AVAILABLE spot; when it succeeds
\* the claimed spot belonged to the requested facility and was AVAILABLE
\* immediately before the call.
C11_ReserveRejectsOrClaimsAvailable ==
    [][\A u \in Users, l \in LotIds :
         reserve_spot(u, l) =>
           /\ ( \/ OpenOfUser(u) # {}
                \/ ~\E s \in DOMAIN spots :
                      /\ spots[s].parking_lot_id = l
                      /\ spots[s].status = AVAILABLE )
              => /\ UNCHANGED <<lots, spots, reservations>>
                 /\ flash' \in {"already_active", "no_available_spaces"}
           /\ flash' = "reserved"
              => \E s \in DOMAIN spots :
                   /\ spots[s].parking_lot_id = l
                   /\ spots[s].status = AVAILABLE
                   /\ spots' = [spots EXCEPT ![s].status = RESERVED]
                   /\ \E r \in DOMAIN reservations' \ DOMAIN reservations :
                        /\ reservations'[r].parking_spot_id = s
                        /\ reservations'[r].user_id = u]_vars

\* C11 witness: a reservation has just been refused for a facility whose
\* spots are all in use, while another user holds a spot claimed there.
C11_Witness ==
    /\ flash = "no_available_spaces"
    /\ \E l \in DOMAIN lots :
         /\ SpotsOf(spots, l) # {}
         /\ \A s \in SpotsOf(spots, l) : spots[s].status # AVAILABLE
    /\ \E u \in Users : OpenOfUser(u) = {}

\* the reservation id names no reservation of user u
Foreign(u, r) ==
    r \notin DOMAIN reservations \/ reservations[r].user_id # u

\* the step is an occupy_spot or a release_spot request of user u
OccupyOrReleaseBy(u) ==
    \/ \E r \in ResIds, vn \in VehicleInputs : occupy_spot(u, r, vn)
    \/ \E r \in ResIds : release_spot(u, r)

\* C12: occupy_spot and release_spot by a user on a reservation id that
\* belongs to a different user, or that does not exist, are rejected and
\* leave every spot and every reservation unchanged; no occupy or release
\* of a user changes the status of a spot held by another user's open
\* reservation.
C12_ForeignReservationRejected ==
    [][/\ \A u \in Users, r \in ResIds :
            Foreign(u, r) =>
              /\ \A vn \in VehicleInputs :
                   occupy_spot(u, r, vn)
                   => /\ UNCHANGED <<lots, spots, reservations>>
                      /\ flash' = "session_not_found"
              /\ release_spot(u, r)
                 => /\ UNCHANGED <<lots, spots, reservations>>
                    /\ flash' = "session_not_found"
       /\ \A s \in DOMAIN spots, u \in Users :
            ( /\ \E r \in OpenOnSpot(s) : reservations[r].user_id # u
              /\ s \notin DOMAIN spots' \/ spots'[s].status # spots[s].status )
            => ~OccupyOrReleaseBy(u)]_vars

\* C12 witness: every reservation id is taken by an open reservation whose
\* spot is in use, and an occupy or release has just been refused as not
\* found: the request named a reservation of another user.
C12_Witness ==
    /\ flash = "session_not_found"
    /\ DOMAIN reservations = ResIds
    /\ \A r \in ResIds :
         /\ reservations[r].end_time = None
         /\ spots[reservations[r].parking_spot_id].status # AVAILABLE

\* C13: once the end_time of a reservation is set, every later occupy_spot
\* or release_spot on it is rejected and changes nothing: as long as the
\* reservation exists its end_time, occupy_time and vehicle_number never
\* change again, and the rejected call leaves every spot as it was.
C13_CompletedIsFinal ==
    [][/\ \A r \in Completed :
            r \in DOMAIN reservations' => reservations'[r] = reservations[r]
       /\ \A r \in Completed, u \in Users :
            ( \/ \E vn \in VehicleInputs : occupy_spot(u, r, vn)
              \/ release_spot(u, r) )
            => /\ UNCHANGED <<lots, spots, reservations>>
               /\ flash' \in {"already_completed", "session_not_found"}
               /\ reservations[r].user_id = u
                    => flash' = "already_completed"]_vars

\* C13 witness: a request on a completed reservation has just been refused
\* while the spot of that reservation is in use under a later reservation.
C13_Witness ==
    /\ flash = "already_completed"
    /\ \E r \in Completed :
         /\ reservations[r].occupy_time # None
         /\ reservations[r].parking_spot_id \in DOMAIN spots
         /\ spots[reservations[r].parking_spot_id].status = RESERVED

\* the step is a request of the named kind
ReserveStep == \E u \in Users, l \in LotIds : reserve_spot(u, l)
OccupyStep ==
    \E u \in Users, r \in ResIds, vn \in VehicleInputs : occupy_spot(u, r, vn)
ReleaseStep == \E u \in Users, r \in ResIds : release_spot(u, r)

\* the status of spot s goes from a to b in the step
Moves(s, a, b) == spots[s].status = a /\ spots'[s].status = b

\* spots that exist before and after the step with a different status
StatusChanged ==
    {s \in DOMAIN spots \cap DOMAIN spots' :
       spots'[s].status # spots[s].status}

\* C14: each change of the status of an existing spot is one of exactly
\* three transitions: AVAILABLE to RESERVED by reserve, RESERVED to
\* OCCUPIED by occupy, OCCUPIED to AVAILABLE by release.
C14_ThreeTransitions ==
    [][\A s \in StatusChanged :
         \/ Moves(s, AVAILABLE, RESERVED) /\ ReserveStep
         \/ Moves(s, RESERVED, OCCUPIED) /\ OccupyStep
         \/ Moves(s, OCCUPIED, AVAILABLE) /\ ReleaseStep]_vars

\* C14 as amended: each change of the status of an existing spot is one of
\* four transitions: AVAILABLE to RESERVED by reserve, RESERVED to OCCUPIED
\* by occupy, OCCUPIED to AVAILABLE by release, and RESERVED to AVAILABLE
\* by a release that comes before any occupy.
C14_FourTransitions ==
    [][\A s \in StatusChanged :
         \/ Moves(s, AVAILABLE, RESERVED) /\ ReserveStep
         \/ Moves(s, RESERVED, OCCUPIED) /\ OccupyStep
         \/ Moves(s, OCCUPIED, AVAILABLE) /\ ReleaseStep
         \/ /\ Moves(s, RESERVED, AVAILABLE) /\ ReleaseStep
            /\ \E r \in OpenOnSpot(s) : reservations[r].occupy_time = None]_vars

\* C14 witness: a reservation was released without ever being occupied and
\* its spot is AVAILABLE again, beside a session that went through occupy.
C14_Witness ==
    /\ flash = "released"
    /\ \E r \in Completed :
         /\ reservations[r].occupy_time = None
         /\ reservations[r].parking_spot_id \in DOMAIN spots
         /\ spots[reservations[r].parking_spot_id].status = AVAILABLE
    /\ \E r \in DOMAIN reservations : reservations[r].occupy_time # None

\* C15: a capacity that is zero or negative submitted to add_lot or
\* edit_lot is rejected and leaves the capacity and the spots of the
\* facility unchanged; the number_of_spots of every facility is at least 1.
C15_NonPositiveCapacityRejected ==
    [][/\ \A c \in CapInputs :
            ( /\ c <= 0
              /\ add_lot(c) \/ \E l \in LotIds : edit_lot(l, c) )
            => UNCHANGED <<lots, spots>>
       /\ \A l \in DOMAIN lots' : lots'[l].number_of_spots >= 1]_vars

\* the step computes the cost of reservation r: by the dashboard, or by the
\* release_spot that completes it
CostStep(r) ==
    \/ get_reservation_details(r)
    \/ flash' = "released" /\ \E u \in Users : release_spot(u, r)

\* whole minutes from start_time to end_time, or to the clock while the
\* session is open, once the step is taken
MinutesAfter(r) ==
    ( IF reservations'[r].end_time = None THEN now'
      ELSE reservations'[r].end_time[1] ) - reservations'[r].start_time

\* whole-unit hourly rate of the facility of reservation r
RateOf(r) ==
    lots[spots[reservations[r].parking_spot_id].parking_lot_id].price_per_hour

\* max(60, minutes), the minutes billed
Billed(minutes) == IF minutes > 60 THEN minutes ELSE 60

\* C16: with durations in whole minutes and the rate in whole currency
\* units, the cost calculate_cost returns equals max(60, minutes) * rate /
\* 60: a 10-minute session at rate 60 costs 60, a 90-minute session at
\* rate 60 costs 90, and every session of at most 60 minutes costs exactly
\* one hour's rate. (cost is in hundredths of the currency unit.)
C16_CostIsExactHourlyCharge ==
    [][\A r \in DOMAIN reservations :
         CostStep(r) =>
           LET minutes == MinutesAfter(r)
               rate == RateOf(r)
           IN  /\ 60 * cost'[1] = 100 * Billed(minutes) * rate
               /\ (minutes = 10 /\ rate = 60) => cost'[1] = 100 * 60
               /\ (minutes = 90 /\ rate = 60) => cost'[1] = 100 * 90
               /\ minutes <= 60 => cost'[1] = 100 * rate]_vars

\* C16 as amended: the cost equals max(60, minutes) * rate / 60 rounded to
\* two decimal places, that is the hundredth nearest to it: a 10-minute
\* session at rate 60 costs 60, a 90-minute session at rate 60 costs 90,
\* and every session of at most 60 minutes costs exactly one hour's rate.
C16_CostIsRoundedHourlyCharge ==
    [][\A r \in DOMAIN reservations :
         CostStep(r) =>
           LET minutes == MinutesAfter(r)
               rate == RateOf(r)
               off == 60 * cost'[1] - 100 * Billed(minutes) * rate
           IN  /\ cost' # None
               /\ 0 - 30 <= off /\ off <= 30
               /\ (minutes = 10 /\ rate = 60) => cost'[1] = 100 * 60
               /\ (minutes = 90 /\ rate = 60) => cost'[1] = 100 * 90
               /\ minutes <= 60 => cost'[1] = 100 * rate]_vars

\* C16 witness: a session of 61 minutes at rate 1 has just been released
\* and charged 1.02, the rounding of 61/60.
C16_Witness ==
    /\ flash = "released"
    /\ cost = Some(102)
    /\ lots[1].price_per_hour = 1
    /\ reservations[1].start_time = 0
    /\ reservations[1].end_time = Some(61)

CreatedRes == DOMAIN reservations' \ DOMAIN reservations
DeletedRes == DOMAIN reservations \ DOMAIN reservations'
DeletedSpots == DOMAIN spots \ DOMAIN spots'

\* the step is a request that deletes spots: a capacity change or delete_lot
SpotDeletingStep ==
    \/ CapacityStep
    \/ \E l \in LotIds : delete_lot(l)

\* C18: a reservation is created only by a successful reserve_spot, together
\* with the AVAILABLE to RESERVED transition of its spot; reserve_spot,
\* occupy_spot and release_spot never delete a reservation; a reservation
\* disappears only when its spot is deleted (shrink, sync_lot_spots,
\* delete_lot), and then every reservation of that spot, the completed ones
\* included, is deleted with it.
C18_ReservationCreatedAndDeleted ==
    [][/\ \A r \in CreatedRes :
            /\ flash' = "reserved" /\ ReserveStep
            /\ CreatedRes = {r}
            /\ LET s == reservations'[r].parking_spot_id IN
               /\ s \in DOMAIN spots /\ s \in DOMAIN spots'
               /\ Moves(s, AVAILABLE, RESERVED)
       /\ \A r \in DeletedRes :
            /\ reservations[r].parking_spot_id \in DeletedSpots
            /\ SpotDeletingStep
       /\ \A s \in DeletedSpots, r \in DOMAIN reservations :
            reservations[r].parking_spot_id = s => r \in DeletedRes
       /\ \A r \in DOMAIN reservations' :
            reservations'[r].parking_spot_id \in DOMAIN spots']_vars

\* C18 witness: sync_lot_spots has just removed spots while a spot in use
\* keeps its open reservation, and the reservation ids handed out so far
\* are not all present: a completed reservation went with its spot.
C18_Witness ==
    /\ flash = "removed_excess"
    /\ \E r \in OpenRes(reservations) :
         spots[reservations[r].parking_spot_id].status # AVAILABLE
    /\ Cardinality(DOMAIN reservations) = 1
    /\ 2 \in DOMAIN reservations

\* C19: delete_lot deletes a facility only when every spot of it is
\* AVAILABLE; when any spot is in use the deletion is refused and nothing
\* changes; after a deletion no spot of the facility and no reservation
\* referencing one remains; no open reservation is ever removed by
\* delete_lot.
C19_DeleteLotOnlyWhenFree ==
    [][\A l \in DOMAIN lots :
         delete_lot(l) =>
           LET of_lot == {s \in DOMAIN spots : spots[s].parking_lot_id = l}
               in_use == {s \in of_lot : spots[s].status # AVAILABLE}
           IN  /\ in_use # {}
                  => /\ UNCHANGED <<lots, spots, reservations>>
                     /\ flash' = "cannot_delete"
               /\ in_use = {}
                  => /\ l \notin DOMAIN lots'
                     /\ DOMAIN spots' = DOMAIN spots \ of_lot
                     /\ \A r \in DOMAIN reservations' :
                          /\ r \in DOMAIN reservations
                          /\ reservations[r].parking_spot_id \notin of_lot
                          /\ reservations'[r].parking_spot_id \in DOMAIN spots'
               /\ \A r \in OpenRes(reservations) :
                    /\ r \in DOMAIN reservations'
                    /\ reservations'[r] = reservations[r]]_vars

\* C19 witness: the deletion of a facility has just been refused: one of
\* its spots is in use and another, AVAILABLE, carries a completed
\* reservation.
C19_Witness ==
    /\ flash = "cannot_delete"
    /\ \E s, t \in DOMAIN spots :
         /\ spots[s].status # AVAILABLE
         /\ spots[t].status = AVAILABLE
         /\ spots[t].parking_lot_id = spots[s].parking_lot_id
         /\ \E r \in Completed : reservations[r].parking_spot_id = t

\* C20: when two capacity changes of a facility (edit_lot, sync_lot_spots)
\* run concurrently, the persisted state is the one some serial order of
\* them gives: once no request is in service, the spot count of every
\* facility equals its declared capacity and no two spots of a facility
\* share a label.
C20_ConcurrentCapacityChangesSerialize ==
    (\A w \in Workers : req[w].pc = "idle")
    => \A l \in DOMAIN lots :
         /\ Cardinality(SpotsOf(spots, l)) = lots[l].number_of_spots
         /\ \A s, t \in SpotsOf(spots, l) :
              spots[s].spot_number = spots[t].spot_number => s = t

\* C21: whenever an assignment to number_of_spots triggers the listener with
\* a smaller value and at least one candidate spot is not AVAILABLE, the
\* value number_of_spots holds once the assignment and its request complete
\* is the corrected value: the spot count before reconciliation minus the
\* number of spots deleted, not the requested value.
C21_BlockedShrinkKeepsCorrection ==
    [][\A l \in DOMAIN lots, V \in CapInputs :
         LET count == Cardinality(SpotsOf(spots, l)) IN
         (V >= 1 /\ V # lots[l].number_of_spots /\ V < count)
         => \A cand \in ExcessSpots(spots, l, count - V) :
              LET free == {s \in cand : spots[s].status = AVAILABLE} IN
              ( /\ free # cand
                /\ DOMAIN spots' = DOMAIN spots \ free
                /\ flash' = "facility_updated"
                   \/ flash' = "facility_updated_added"
                   \/ flash' = "facility_updated_reduced"
                /\ edit_lot(l, V) )
              => lots'[l].number_of_spots = count - Cardinality(free)]_vars

\* C22: the capacity correction the listener writes when candidates are
\* blocked does not loop: the listener re-entered by that write adds no
\* spot, deletes no spot and writes no further correction, so a
\* reconciliation is at most two listener invocations and ends with the
\* spots of the first pass.
C22_CorrectionDoesNotLoop ==
    \A l \in DOMAIN lots, V \in CapInputs :
      LET count == Cardinality(SpotsOf(spots, l))
          old == Some(lots[l].number_of_spots)
      IN  \A cand \in listener_excess(spots, l, V, old, TRUE) :
            LET free == {s \in cand : spots[s].status = AVAILABLE}
                run == manage_parking_spots(spots, reservations, l, V,
                                            old, TRUE, cand)
            IN  /\ run.calls <= 2
                /\ run.calls = 2 <=> free # cand
                /\ free # cand
                   => /\ run.spots = Restrict(spots, DOMAIN spots \ free)
                      /\ run.reservations = ResAfterDelete(reservations, free)
                      /\ run.corrected = Some(count - Cardinality(free))

\* C22 witness: an edit_lot has just raised number_of_spots to a value still
\* below the spot count of the facility: its listener found a candidate in
\* use, wrote the correction and was entered again.
C22_Witness ==
    /\ flash = "facility_updated_added"
    /\ \E l \in DOMAIN lots :
         /\ lots[l].number_of_spots >= 1
         /\ lots[l].number_of_spots < Cardinality(SpotsOf(spots, l))
         /\ \E s \in SpotsOf(spots, l) : spots[s].status # AVAILABLE

\* the step writes spot s and reservation r and nothing else: every other
\* spot and every other reservation is as before, spot s keeps its facility
\* and its label, no spot is created or deleted and no facility changes
OnlyTouches(s, r) ==
    /\ lots' = lots
    /\ DOMAIN spots' = DOMAIN spots
    /\ s \in DOMAIN spots
    /\ \A x \in DOMAIN spots \ {s} : spots'[x] = spots[x]
    /\ spots'[s] = [spots[s] EXCEPT !.status = spots'[s].status]
    /\ DOMAIN reservations' = DOMAIN reservations \cup {r}
    /\ \A x \in DOMAIN reservations \ {r} : reservations'[x] = reservations[x]
    /\ reservations'[r].parking_spot_id = s

C24_ShrinkDeletesHighestLabels ==
    [][\A l \in DOMAIN lots, V \in 0..MaxCap :
         LET C == Cardinality(SpotsOf(spots, l)) IN
         ( /\ V < C
           /\ V < lots[l].number_of_spots
           /\ \A cand \in ExcessSpots(spots, l, C - V) :
                \A s \in cand : spots[s].status = AVAILABLE
           /\ flash' = "facility_updated_reduced"
           /\ edit_lot(l, V) )
         => /\ DeletedSpots \in ExcessSpots(spots, l, C - V)
            /\ Cardinality(SpotsOf(spots', l)) = V
            /\ spots' = Restrict(spots, DOMAIN spots \ DeletedSpots)]_vars

\* C25: growing the capacity of a facility leaves every existing spot
\* undisturbed: each spot that existed before the edit exists after it with
\* the same label, status and facility, and every reservation, open ones
\* included, references the same spot as before.
C25_GrowKeepsExistingSpots ==
    [][\A l \in DOMAIN lots, V \in CapInputs :
         (V > Cardinality(SpotsOf(spots, l)) /\ edit_lot(l, V))
         => /\ \A s \in DOMAIN spots :
                 s \in DOMAIN spots' /\ spots'[s] = spots[s]
            /\ reservations' = reservations
            /\ \A r \in OpenRes(reservations') :
                 reservations'[r].parking_spot_id \in DOMAIN spots']_vars

\* C25 witness: a facility has just been grown to three spots while its
\* spot 001 is occupied under an open reservation; the added spots 002 and
\* 003 are AVAILABLE.
C25_Witness ==
    /\ flash = "facility_updated_added"
    /\ \E l \in DOMAIN lots :
         /\ lots[l].number_of_spots = 3
         /\ Cardinality(SpotsOf(spots, l)) = 3
         /\ \E r \in OpenRes(reservations), s \in SpotsOf(spots, l) :
              /\ reservations[r].parking_spot_id = s
              /\ spots[s].status = OCCUPIED
              /\ spots[s].spot_number = <<0, 0, 1>>
              /\ \A x \in SpotsOf(spots, l) \ {s} : spots[x].status = AVAILABLE

\* a step of one of the administrator's operations
AdminStep ==
    \/ \E c \in CapInputs : add_lot(c)
    \/ \E l \in LotIds, c \in CapInputs : edit_lot(l, c)
    \/ \E l \in LotIds : sync_lot_spots(l)
    \/ \E l \in LotIds : delete_lot(l)

\* C26: no administrator operation (add_lot, edit_lot, sync_lot_spots,
\* delete_lot) changes the status of a spot that exists before and after
\* it; the spots it creates are AVAILABLE, and a spot it does not delete
\* keeps its row.
C26_AdminKeepsStatuses ==
    [][\/ /\ StatusChanged = {}
          /\ \A s \in DOMAIN spots \cap DOMAIN spots' : spots'[s] = spots[s]
          /\ \A s \in DOMAIN spots' \ DOMAIN spots :
               spots'[s].status = AVAILABLE
       \/ ~AdminStep]_vars

\* C26 witness: sync_lot_spots has just removed excess spots of a facility
\* in which a spot is still in use under an open reservation.
C26_Witness ==
    /\ flash = "removed_excess"
    /\ \E r \in OpenRes(reservations) :
         /\ reservations[r].parking_spot_id \in DOMAIN spots
         /\ spots[reservations[r].parking_spot_id].status # AVAILABLE

\* the labels 001 .. n, zero-padded to width 3
Labels(n) == {zfill(str(i), 3) : i \in 1..n}

\* C27: add_lot with a capacity N >= 1 produces exactly N spots for the new
\* facility, labelled 001 to N, all AVAILABLE: the listener fired by the
\* constructor and the explicit loop together create no more than N.
C27_AddLotCreatesNSpots ==
    [][\A N \in PosCaps :
         LET id == NextId(DOMAIN lots) IN
         (flash' = "facility_created" /\ add_lot(N))
         => /\ id \in DOMAIN lots' /\ lots'[id].number_of_spots = N
            /\ Cardinality(SpotsOf(spots', id)) = N
            /\ {spots'[s].spot_number : s \in SpotsOf(spots', id)} = Labels(N)
            /\ \A s \in SpotsOf(spots', id) : spots'[s].status = AVAILABLE
            /\ Cardinality(DOMAIN spots') = Cardinality(DOMAIN spots) + N]_vars

\* C27 witness: a facility has just been created with three spots.
C27_Witness ==
    /\ flash = "facility_created"
    /\ \E l \in DOMAIN lots :
         /\ lots[l].number_of_spots = 3
         /\ {spots[s].spot_number : s \in SpotsOf(spots, l)} =
              { <<0, 0, 1>>, <<0, 0, 2>>, <<0, 0, 3>> }

\* C28: after sync_lot_spots completes for a facility, in any reachable
\* state, the number of spots persisted for the facility equals the
\* facility's number_of_spots.
C28_SyncMakesCountEqualCapacity ==
    [][\A l \in DOMAIN lots :
         sync_lot_spots(l)
         => Cardinality(SpotsOf(spots', l)) = lots'[l].number_of_spots]_vars

\* C29: under concurrent occupy_spot and release_spot calls (or two
\* release_spot calls) on the same reservation, no interleaving leaves a
\* spot RESERVED or OCCUPIED with no open reservation referencing it, or
\* AVAILABLE with an open reservation referencing it.
C29_OccupyReleaseRaceKeepsStatus ==
    \A s \in DOMAIN spots :
      /\ spots[s].status \in {RESERVED, OCCUPIED} => OpenOnSpot(s) # {}
      /\ spots[s].status = AVAILABLE => OpenOnSpot(s) = {}

\* C30: while a shrink (edit_lot or sync_lot_spots) and a reserve_spot on
\* the same facility run concurrently, no interleaving deletes a spot that
\* a reserve has claimed (a spot that is not AVAILABLE or that an open
\* reservation references), and every open reservation always references
\* an existing spot.
C30_ShrinkNeverDeletesClaimedSpot ==
    [][/\ \A s \in DeletedSpots :
            spots[s].status = AVAILABLE /\ OpenOnSpot(s) = {}
       /\ \A r \in OpenRes(reservations') :
            reservations'[r].parking_spot_id \in DOMAIN spots']_vars

\* the messages occupy_spot answers with
OccupyFlashes ==
    {"session_not_found", "already_completed", "vehicle_required", "occupied"}

\* C31: a second occupy_spot with a non-blank vehicle number on a
\* reservation that is occupied and not completed is accepted: the spot
\* stays OCCUPIED, the reservation stays open, and its vehicle_number and
\* occupy_time take the values of the second call; an occupy of an occupied
\* reservation is rejected only when end_time is set.
C31_SecondOccupyAccepted ==
    [][\A u \in Users, r \in DOMAIN reservations :
         ( /\ now' = now
           /\ flash' \in OccupyFlashes
           /\ reservations[r].user_id = u
           /\ reservations[r].occupy_time # None )
         => \A vn \in VehicleInputs :
              (~Blank(vn) /\ occupy_spot(u, r, vn))
              => IF reservations[r].end_time # None
                 THEN /\ flash' = "already_completed"
                      /\ spots' = spots /\ reservations' = reservations
                 ELSE /\ flash' = "occupied"
                      /\ spots[reservations[r].parking_spot_id].status = OCCUPIED
                      /\ spots' = spots
                      /\ reservations' =
                           [reservations EXCEPT
                              ![r].vehicle_number = strip(vn),
                              ![r].occupy_time = Some(now)]
                      /\ reservations'[r].end_time = None]_vars

\* C31 witness: an occupied session that began when the spot was reserved
\* at 0 carries the vehicle number B and the occupy_time 60 of an occupy
\* accepted an hour later, and is still open.
C31_Witness ==
    /\ flash = "occupied"
    /\ now = 60
    /\ \E r \in OpenRes(reservations) :
         /\ reservations[r].start_time = 0
         /\ reservations[r].occupy_time = Some(60)
         /\ reservations[r].vehicle_number = <<"B">>
         /\ spots[reservations[r].parking_spot_id].status = OCCUPIED

\* C32: when edit_lot refuses a capacity reduction because a candidate spot
\* is in use, the whole edit is refused: the facility's properties (price
\* included), its declared capacity and its set of spots are unchanged, and
\* no AVAILABLE candidate spot is deleted.
C32_RefusedEditChangesNothing ==
    [][\A l \in DOMAIN lots, V \in CapInputs :
         /\ (flash' = "cannot_reduce" /\ edit_lot(l, V))
            => lots' = lots /\ spots' = spots /\ reservations' = reservations
         /\ ( /\ V < lots[l].number_of_spots
              /\ \A cand \in ExcessSpots(spots, l, lots[l].number_of_spots - V) :
                   \E s \in cand : spots[s].status # AVAILABLE
              /\ edit_lot(l, V) )
            => /\ flash' = "cannot_reduce"
               /\ lots' = lots /\ spots' = spots
               /\ reservations' = reservations]_vars

\* C32 witness: a reduction has just been refused for a facility that has
\* an AVAILABLE spot besides the one in use, and whose hourly rate is not
\* the rate the form submitted.
C32_Witness ==
    /\ flash = "cannot_reduce"
    /\ \E l \in DOMAIN lots :
         /\ lots[l].price_per_hour \notin Prices
         /\ \E s, t \in SpotsOf(spots, l) :
              spots[s].status # AVAILABLE /\ spots[t].status = AVAILABLE

\* the messages release_spot answers with
ReleaseFlashes == {"session_not_found", "already_completed", "released"}

\* every open reservation references an existing spot and every release of
\* an open reservation by its owner goes through: the spot becomes
\* AVAILABLE, end_time is set, and the owner has no open reservation left
ReleaseSucceeds ==
    [][/\ \A r \in OpenRes(reservations) :
            reservations[r].parking_spot_id \in DOMAIN spots
       /\ \A r \in OpenRes(reservations) :
            (flash' \in ReleaseFlashes /\ ReleaseOf(r))
            => /\ flash' = "released"
               /\ reservations'[r].end_time = Some(now)
               /\ spots'[reservations[r].parking_spot_id].status = AVAILABLE
               /\ OpenRes(reservations') = OpenRes(reservations) \ {r}
               /\ ~existing_active_reservation(reservations',
                                               reservations[r].user_id)]_vars

\* a spot that is RESERVED or OCCUPIED becomes AVAILABLE (or is removed)
SpotsBecomeAvailable ==
    \A s \in 1..MaxSpotId :
      (s \in DOMAIN spots /\ spots[s].status # AVAILABLE)
        ~> (s \notin DOMAIN spots \/ spots[s].status = AVAILABLE)

\* C33: with requests executed one at a time, every reservation with
\* end_time null can be released by its owner: the release succeeds, sets
\* the spot AVAILABLE and sets end_time, after which the owner's next
\* reserve_spot is not rejected for an active reservation; hence, if every
\* open reservation is eventually released, every RESERVED or OCCUPIED
\* spot eventually becomes AVAILABLE.
C33_OpenReservationCanBeReleased == ReleaseSucceeds /\ SpotsBecomeAvailable

\* C33 witness: a session that was never occupied has just been released;
\* no reservation is open and every spot is AVAILABLE.
C33_Witness ==
    /\ flash = "released"
    /\ OpenRes(reservations) = {}
    /\ \E r \in Completed : reservations[r].occupy_time = None
    /\ \A s \in DOMAIN spots : spots[s].status = AVAILABLE

\* a run of sync_lot_spots on facility l after which a second run, served
\* next and reading the excess rows in the same order, has nothing to add
\* and nothing to delete: the candidates the first run kept are the second
\* run's candidates and none of them is AVAILABLE
SecondSyncChangesNothing(l) ==
    LET current_spots_count == Cardinality(SpotsOf(spots, l))
        expected_spots == lots[l].number_of_spots
        left_spots_count == Cardinality(SpotsOf(spots', l))
    IN  IF current_spots_count < expected_spots
        THEN left_spots_count = expected_spots
        ELSE \E excess_spots \in ExcessSpots(
                  spots, l, current_spots_count - expected_spots) :
               LET kept == excess_spots \ DeletedSpots IN
               /\ removable(spots, excess_spots) = DeletedSpots
               /\ kept \in ExcessSpots(spots', l,
                                       left_spots_count - expected_spots)
               /\ removable(spots', kept) = {}

\* C34: running sync_lot_spots twice in a row on a facility, with no other
\* request in between, leaves the same state as running it once: in the
\* state a run leaves, the second run adds no spot and deletes no spot.
C34_SyncIsIdempotent ==
    [][\A l \in DOMAIN lots :
         sync_lot_spots(l) => /\ lots' = lots
                              /\ SecondSyncChangesNothing(l)]_vars

\* C34 witness: a run of sync_lot_spots has removed excess spots and left
\* a facility that still has more spots than its capacity.
C34_Witness ==
    /\ flash = "removed_excess"
    /\ \E l \in DOMAIN lots :
         /\ Cardinality(SpotsOf(spots, l)) > lots[l].number_of_spots
         /\ \E s \in SpotsOf(spots, l) : spots[s].status # AVAILABLE

\* the times of reservation row x are in order
TimesInOrder(x) ==
    /\ x.occupy_time # None => x.start_time <= x.occupy_time[1]
    /\ x.end_time # None => x.start_time <= x.end_time[1]
    /\ (x.occupy_time # None /\ x.end_time # None)
         => x.occupy_time[1] <= x.end_time[1]

\* C35: with a clock that never goes backwards, every reservation has
\* start_time <= occupy_time whenever occupy_time is set, start_time <=
\* end_time whenever end_time is set and occupy_time <= end_time whenever
\* both are set, and start_time never changes after the reservation is
\* created.
C35_TimesAreOrdered ==
    [][/\ \A r \in DOMAIN reservations' : TimesInOrder(reservations'[r])
       /\ \A r \in DOMAIN reservations \cap DOMAIN reservations' :
            reservations'[r].start_time = reservations[r].start_time]_vars

\* C36: for a reservation with end_time null calculate_cost never
\* decreases as the clock advances and is never below one hour's rate;
\* once release_spot has set end_time, calculate_cost returns the same
\* value at every later time, equal to the charge computed at release, as
\* long as the facility's hourly rate is not edited.
C36_CostGrowsThenIsFinal ==
    [][\A r \in DOMAIN reservations \cap DOMAIN reservations' :
         LET before == calculate_cost(reservations[r], spots, lots, now)
             after == calculate_cost(reservations'[r], spots', lots', now')
             s == reservations[r].parking_spot_id
         IN  (lots' = lots /\ s \in DOMAIN spots /\ s \in DOMAIN spots')
             => /\ reservations'[r].end_time = None
                  => /\ after >= before
                     /\ after >= CentsPerUnit
                          * lots[spots[s].parking_lot_id].price_per_hour
                /\ reservations[r].end_time # None => after = before
                /\ (reservations[r].end_time = None
                    /\ reservations'[r].end_time # None)
                     => cost' = Some(after)]_vars

=============================================================================
